---------------------------- MODULE Spec2Model ----------------------------
(***************************************************************************)
(* A model of float_approx_math: approx_sqrt, approx_inv_sqrt,             *)
(* approx_inv_sqrt_unchecked, approx_sin and approx_cos for f32 and f64.   *)
(*                                                                         *)
(* TLC's integers are 32 bits wide, so the u32/u64 bit patterns and the    *)
(* significands of the IEEE-754 arithmetic are kept as naturals in limbs   *)
(* (little-endian sequences of digits below Base), and every float         *)
(* operation is computed exactly and then rounded to nearest, ties to      *)
(* even, as the hardware does.                                             *)
(***************************************************************************)
EXTENDS Integers, Sequences, FiniteSets, TLC

(***************************************************************************)
(* Naturals of unbounded size.                                             *)
(***************************************************************************)
Base == 2^15

Max(a, b) == IF a >= b THEN a ELSE b

Min(a, b) == IF a <= b THEN a ELSE b

\* Op(v), with v evaluated before Op is applied: it keeps the evaluation of a chain
\* of operations from nesting
Then(v, Op(_)) == CHOOSE r \in {Op(x) : x \in {v}} : TRUE

RECURSIVE BNorm(_)
BNorm(a) ==
    IF a = <<>> THEN a
    ELSE IF a[Len(a)] = 0 THEN BNorm(SubSeq(a, 1, Len(a) - 1)) ELSE a

RECURSIVE BFromInt(_)
BFromInt(n) == IF n = 0 THEN <<>> ELSE <<n % Base>> \o BFromInt(n \div Base)

BZero == <<>>

BOne == <<1>>

Limb(a, k) == IF k <= Len(a) THEN a[k] ELSE 0

RECURSIVE BAddC(_, _, _, _)
BAddC(a, b, k, c) ==
    IF k > Len(a) /\ k > Len(b)
    THEN (IF c = 0 THEN <<>> ELSE <<c>>)
    ELSE LET s == Limb(a, k) + Limb(b, k) + c
         IN  <<s % Base>> \o BAddC(a, b, k + 1, s \div Base)

BAdd(a, b) == BAddC(a, b, 1, 0)

\* a - b for a >= b
RECURSIVE BSubC(_, _, _, _)
BSubC(a, b, k, c) ==
    IF k > Len(a) THEN <<>>
    ELSE LET s == Limb(a, k) - Limb(b, k) - c
         IN  IF s < 0 THEN <<s + Base>> \o BSubC(a, b, k + 1, 1)
                      ELSE <<s>> \o BSubC(a, b, k + 1, 0)

BSub(a, b) == BNorm(BSubC(a, b, 1, 0))

\* -1, 0, 1 as a < b, a = b, a > b (both normalised)
RECURSIVE BCmpAt(_, _, _)
BCmpAt(a, b, k) ==
    IF k = 0 THEN 0
    ELSE IF a[k] < b[k] THEN -1
    ELSE IF a[k] > b[k] THEN 1
    ELSE BCmpAt(a, b, k - 1)

BCmp(a, b) ==
    IF Len(a) < Len(b) THEN -1
    ELSE IF Len(a) > Len(b) THEN 1
    ELSE BCmpAt(a, b, Len(a))

BLe(a, b) == BCmp(a, b) <= 0

BLt(a, b) == BCmp(a, b) < 0

\* a * d for 0 <= d < Base
RECURSIVE BMulSmallC(_, _, _, _)
BMulSmallC(a, d, k, c) ==
    IF k > Len(a)
    THEN (IF c = 0 THEN <<>> ELSE <<c>>)
    ELSE LET s == a[k] * d + c
         IN  <<s % Base>> \o BMulSmallC(a, d, k + 1, s \div Base)

BMulSmall(a, d) == IF d = 0 \/ a = <<>> THEN <<>> ELSE BMulSmallC(a, d, 1, 0)

BShlLimbs(a, n) == IF a = <<>> THEN a ELSE [k \in 1..n |-> 0] \o a

BShrLimbs(a, n) == IF n >= Len(a) THEN <<>> ELSE SubSeq(a, n + 1, Len(a))

RECURSIVE BMulAt(_, _, _)
BMulAt(a, b, k) ==
    IF k > Len(b) THEN <<>>
    ELSE BAdd(BShlLimbs(BMulSmall(a, b[k]), k - 1), BMulAt(a, b, k + 1))

BMul(a, b) == IF a = <<>> \/ b = <<>> THEN <<>> ELSE BMulAt(a, b, 1)

\* floor(a / d) for 0 < d < Base, from the top limb down
RECURSIVE BDivSmallAt(_, _, _, _)
BDivSmallAt(a, d, k, r) ==
    IF k = 0 THEN <<>>
    ELSE LET t == r * Base + a[k]
         IN  BDivSmallAt(a, d, k - 1, t % d) \o <<t \div d>>

BDivSmall(a, d) == BNorm(BDivSmallAt(a, d, Len(a), 0))

\* a * 2^n
BShl(a, n) == BShlLimbs(BMulSmall(a, 2^(n % 15)), n \div 15)

\* floor(a / 2^n)
BShr(a, n) == BDivSmall(BShrLimbs(a, n \div 15), 2^(n % 15))

\* a mod 2^n
BLow(a, n) ==
    LET q == n \div 15
        r == n % 15
        lo == SubSeq(a, 1, Min(q, Len(a)))
    IN  IF q >= Len(a) THEN a
        ELSE BNorm(lo \o <<a[q + 1] % (2^r)>>)

RECURSIVE IntBitLen(_)
IntBitLen(n) == IF n = 0 THEN 0 ELSE 1 + IntBitLen(n \div 2)

BBitLen(a) == IF a = <<>> THEN 0 ELSE (Len(a) - 1) * 15 + IntBitLen(a[Len(a)])

BBit(a, n) == (Limb(a, n \div 15 + 1) \div (2^(n % 15))) % 2

BIsOdd(a) == a # <<>> /\ a[1] % 2 = 1

\* 2^n
BPow2(n) == BShl(BOne, n)

\* The digit q with q * b <= r < (q + 1) * b, for r < Base * b and b's top limb at
\* least Base / 2: the estimate from the top two limbs of r is at most 2 too big.
RECURSIVE BDigitFix(_, _, _)
BDigitFix(r, b, q) == IF BLt(r, BMulSmall(b, q)) THEN BDigitFix(r, b, q - 1) ELSE q

BDigit(r, b) ==
    IF BLt(r, b) THEN 0
    ELSE BDigitFix(r, b,
                   Min(Base - 1,
                       (Limb(r, Len(b) + 1) * Base + Limb(r, Len(b))) \div b[Len(b)]))

\* one digit of the long division: the quotient so far qs, the running remainder r
\* and its digit q
BDivPut(b, qs, r, q) == <<BNorm(<<q>> \o qs), BSub(r, BMulSmall(b, q))>>

BDivDigit(b, qs, r) == BDivPut(b, qs, r, BDigit(r, b))

BDivStep(d, b, p) == BDivDigit(b, p[1], BNorm(<<d>> \o p[2]))

\* <<floor(a / b), a mod b>> of the limbs k and above of a, by long division
RECURSIVE BDivModAt(_, _, _)
BDivModAt(a, b, k) ==
    IF k > Len(a) THEN <<BZero, BZero>>
    ELSE Then(BDivModAt(a, b, k + 1), LAMBDA p : BDivStep(a[k], b, p))

BDivUnshift(p, s) == <<p[1], BShr(p[2], s)>>

BDivShifted(a, b, s) == BDivUnshift(BDivModAt(BShl(a, s), BShl(b, s), 1), s)

\* <<floor(a / b), a mod b>> for b > 0
BDivMod(a, b) == BDivShifted(a, b, 15 - IntBitLen(b[Len(b)]))

RECURSIVE BPow10(_)
BPow10(n) == IF n = 0 THEN BOne ELSE BMulSmall(BPow10(n - 1), 10)

\* the natural written in groups of four decimal digits gs, most significant first
RECURSIVE BFromGroups(_, _)
BFromGroups(gs, k) ==
    IF k = 0 THEN BZero
    ELSE BAdd(BMulSmall(BFromGroups(gs, k - 1), 10000), BFromInt(gs[k]))

\* a natural below 2^31 as an integer
BToInt(a) == Limb(a, 1) + Limb(a, 2) * Base + Limb(a, 3) * Base * Base

BSquare(a) == BMul(a, a)

\* 2^n mod b, by squaring
RECURSIVE BPow2Mod(_, _)
BPow2Mod(n, b) ==
    IF n <= 30 THEN BDivMod(BPow2(n), b)[2]
    ELSE Then(BPow2Mod(n \div 2, b),
              LAMBDA h : BDivMod(BMulSmall(BSquare(h), 1 + (n % 2)), b)[2])

(***************************************************************************)
(* IEEE-754 binary floating point.  A format is given by the type's bit    *)
(* width, its MANTISSA_DIGITS (the significand's precision, hidden bit     *)
(* included) and its EXP_BIAS; a float is the three fields of its bit      *)
(* pattern: sign, biased exponent and fraction.                            *)
(***************************************************************************)
F32 == [bits |-> 32, MANTISSA_DIGITS |-> 24, EXP_BIAS |-> 127]

F64 == [bits |-> 64, MANTISSA_DIGITS |-> 53, EXP_BIAS |-> 1023]

MantBits(f) == f.MANTISSA_DIGITS - 1

ExpMax(f) == 2^(f.bits - f.MANTISSA_DIGITS) - 1

Float(s, e, m) == [sign |-> s, exp |-> e, frac |-> m]

NAN(f) == Float(0, ExpMax(f), BPow2(MantBits(f) - 1))

Inf(f, s) == Float(s, ExpMax(f), BZero)

Zero(s) == Float(s, 0, BZero)

IsNaN(f, a) == a.exp = ExpMax(f) /\ a.frac # BZero

IsInf(f, a) == a.exp = ExpMax(f) /\ a.frac = BZero

IsZero(a) == a.exp = 0 /\ a.frac = BZero

IsFinite(f, a) == a.exp < ExpMax(f)

\* a finite float is Sig * 2^Exp2
Sig(f, a) == IF a.exp = 0 THEN a.frac ELSE BAdd(a.frac, BPow2(MantBits(f)))

Exp2(f, a) == Max(a.exp, 1) - f.EXP_BIAS - MantBits(f)

\* f32::to_bits / f64::to_bits
to_bits(f, a) ==
    BAdd(BShl(BFromInt(a.sign), f.bits - 1),
         BAdd(BShl(BFromInt(a.exp), MantBits(f)), a.frac))

\* f32::from_bits / f64::from_bits
from_bits(f, u) ==
    Float(BBit(u, f.bits - 1),
          BToInt(BShr(BLow(u, f.bits - 1), MantBits(f))),
          BLow(u, MantBits(f)))

\* the float with sign s and the significand q of n bits at the biased exponent be
\* (be = 1 for a subnormal), n being at most MANTISSA_DIGITS + 1
PackLen(f, s, q, be, n) ==
    IF n < f.MANTISSA_DIGITS THEN Float(s, 0, q)
    ELSE IF be + n - f.MANTISSA_DIGITS >= ExpMax(f) THEN Inf(f, s)
    ELSE IF n > f.MANTISSA_DIGITS THEN Float(s, be + 1, BZero)
    ELSE Float(s, be, BLow(q, MantBits(f)))

Pack(f, s, q, be) == PackLen(f, s, q, be, BBitLen(q))

\* q0 rounded up or not: c compares the part cut off with half a unit of q0
RoundUp(q0, c, sticky) ==
    IF c > 0 \/ (c = 0 /\ (sticky \/ BIsOdd(q0))) THEN BAdd(q0, BOne) ELSE q0

\* m * 2^e (+ d) at the exponent qe of the result's last place
RoundAt(f, s, m, e, sticky, qe) ==
    Pack(f, s,
         IF qe <= e THEN BShl(m, e - qe)
         ELSE RoundUp(BShr(m, qe - e),
                      BCmp(BLow(m, qe - e), BPow2(qe - e - 1)),
                      sticky),
         qe + MantBits(f) + f.EXP_BIAS)

\* The float nearest to (-1)^s * (m * 2^e + d), ties to even, where 0 < d < 2^e
\* if sticky and d = 0 otherwise; m has MANTISSA_DIGITS + 2 bits or more if sticky.
Round(f, s, m, e, sticky) ==
    IF m = BZero /\ ~sticky THEN Zero(s)
    ELSE RoundAt(f, s, m, e, sticky,
                 Max(e + BBitLen(m) - 1, 1 - f.EXP_BIAS) - MantBits(f))

\* Round of the tuple <<s, m, e, sticky>>
RoundOf(f, t) == Round(f, t[1], t[2], t[3], t[4])

\* -a
Neg(a) == Float(1 - a.sign, a.exp, a.frac)

\* ma * 2^e - mb * 2^e as sign, magnitude, exponent, by the comparison c of ma with mb
AddDiff(sa, sb, ma, mb, e, c) ==
    IF c = 0 THEN <<0, BZero, e, FALSE>>
    ELSE IF c > 0 THEN <<sa, BSub(ma, mb), e, FALSE>>
    ELSE <<sb, BSub(mb, ma), e, FALSE>>

AddNear(sa, sb, ma, mb, e) ==
    IF sa = sb THEN <<sa, BAdd(ma, mb), e, FALSE>>
    ELSE AddDiff(sa, sb, ma, mb, e, BCmp(ma, mb))

\* b is below a quarter of a unit in the last place of a
AddFar(sa, sb, ma, e) ==
    IF sa = sb THEN <<sa, ma, e, TRUE>> ELSE <<sa, BSub(ma, BOne), e, TRUE>>

\* a + b exactly, for finite non-zero a and b whose exponents differ by d >= 0
AddGap(f, a, b, d) ==
    IF d > f.MANTISSA_DIGITS + 3
    THEN AddFar(a.sign, b.sign, BShl(Sig(f, a), 3), Exp2(f, a) - 3)
    ELSE AddNear(a.sign, b.sign, BShl(Sig(f, a), d), Sig(f, b), Exp2(f, b))

\* a + b of finite non-zero a and b, with |a| having the larger or equal exponent
AddOrdered(f, a, b) == RoundOf(f, AddGap(f, a, b, Exp2(f, a) - Exp2(f, b)))

\* a + b
Add(f, a, b) ==
    IF IsNaN(f, a) \/ IsNaN(f, b) THEN NAN(f)
    ELSE IF IsInf(f, a) THEN (IF IsInf(f, b) /\ a.sign # b.sign THEN NAN(f) ELSE a)
    ELSE IF IsInf(f, b) THEN b
    ELSE IF IsZero(a) /\ IsZero(b) THEN Zero(IF a.sign = 1 /\ b.sign = 1 THEN 1 ELSE 0)
    ELSE IF IsZero(a) THEN b
    ELSE IF IsZero(b) THEN a
    ELSE AddOrdered(f, IF Exp2(f, a) >= Exp2(f, b) THEN a ELSE b,
                       IF Exp2(f, a) >= Exp2(f, b) THEN b ELSE a)

\* a - b
Sub(f, a, b) == Add(f, a, Neg(b))

\* a * b
Mul(f, a, b) ==
    IF IsNaN(f, a) \/ IsNaN(f, b) THEN NAN(f)
    ELSE IF IsInf(f, a) \/ IsInf(f, b)
    THEN (IF IsZero(a) \/ IsZero(b) THEN NAN(f) ELSE Inf(f, (a.sign + b.sign) % 2))
    ELSE Round(f, (a.sign + b.sign) % 2, BMul(Sig(f, a), Sig(f, b)),
               Exp2(f, a) + Exp2(f, b), FALSE)

\* the quotient p[1] at exponent e, sticky if the remainder p[2] is not zero
DivPack(f, s, p, e) == Round(f, s, p[1], e, p[2] # BZero)

DivShift(f, s, ma, ea, mb, eb, k) == DivPack(f, s, BDivMod(BShl(ma, k), mb), ea - eb - k)

\* the float nearest to (-1)^s * (ma * 2^ea) / (mb * 2^eb), for ma, mb > 0
DivRound(f, s, ma, ea, mb, eb) ==
    DivShift(f, s, ma, ea, mb, eb,
             Max(0, f.MANTISSA_DIGITS + 2 + BBitLen(mb) - BBitLen(ma)))

\* a / b
Div(f, a, b) ==
    IF IsNaN(f, a) \/ IsNaN(f, b) THEN NAN(f)
    ELSE IF IsInf(f, a)
    THEN (IF IsInf(f, b) THEN NAN(f) ELSE Inf(f, (a.sign + b.sign) % 2))
    ELSE IF IsInf(f, b) THEN Zero((a.sign + b.sign) % 2)
    ELSE IF IsZero(b)
    THEN (IF IsZero(a) THEN NAN(f) ELSE Inf(f, (a.sign + b.sign) % 2))
    ELSE IF IsZero(a) THEN Zero((a.sign + b.sign) % 2)
    ELSE DivRound(f, (a.sign + b.sign) % 2, Sig(f, a), Exp2(f, a), Sig(f, b), Exp2(f, b))

\* -1, 0, 1 as |a| < |b|, |a| = |b|, |a| > |b|, for a and b not NaN
MagCmp(a, b) ==
    IF a.exp < b.exp THEN -1
    ELSE IF a.exp > b.exp THEN 1
    ELSE BCmp(a.frac, b.frac)

\* a < b
Lt(f, a, b) ==
    /\ ~IsNaN(f, a)
    /\ ~IsNaN(f, b)
    /\ ~(IsZero(a) /\ IsZero(b))
    /\ IF a.sign # b.sign THEN a.sign = 1
       ELSE (1 - 2 * a.sign) * MagCmp(a, b) < 0

\* a > b
Gt(f, a, b) == Lt(f, b, a)

\* (ma * 2^ea) mod (mb * 2^eb) as a multiple of 2^Min(ea, eb), for ma, mb > 0
RemExact(ma, ea, mb, eb) ==
    IF ea >= eb
    THEN Then(BPow2Mod(ea - eb, mb), LAMBDA t : BDivMod(BMul(ma, t), mb)[2])
    ELSE BDivMod(ma, BShl(mb, eb - ea))[2]

\* a % b: the remainder of the division truncated toward zero, which is exact and
\* has the sign of a
Rem(f, a, b) ==
    IF IsNaN(f, a) \/ IsNaN(f, b) \/ IsInf(f, a) \/ IsZero(b) THEN NAN(f)
    ELSE IF IsInf(f, b) \/ IsZero(a) \/ MagCmp(a, b) < 0 THEN a
    ELSE Round(f, a.sign, RemExact(Sig(f, a), Exp2(f, a), Sig(f, b), Exp2(f, b)),
               Min(Exp2(f, a), Exp2(f, b)), FALSE)

\* the literal (-1)^s * m / 10^k
Dec(f, s, m, k) ==
    IF m = BZero THEN Zero(s) ELSE DivRound(f, s, m, 0, BPow10(k), 0)

\* `u as f64` for an unsigned integer u
FromUint(f, u) == Round(f, 0, u, 0, FALSE)

\* the result of `a as u32`, `a as u64` for a finite a > 0 with significand m at
\* exponent e
ToUintOf(m, e, width) ==
    IF BBitLen(m) + e > width THEN BSub(BPow2(width), BOne)
    ELSE IF e >= 0 THEN BShl(m, e)
    ELSE BShr(m, 0 - e)

\* `a as u32`, `a as u64`: truncation toward zero, saturating, NaN to 0
ToUint(f, a, width) ==
    IF IsNaN(f, a) \/ a.sign = 1 \/ IsZero(a) THEN BZero
    ELSE IF IsInf(f, a) THEN BSub(BPow2(width), BOne)
    ELSE ToUintOf(Sig(f, a), Exp2(f, a), width)

(***************************************************************************)
(* The two instances of each macro: f32 with u32 and f64 with u64.         *)
(***************************************************************************)
Formats == {F32, F64}

\* the float literals of the source, parsed in the type they are used at
Lit_0_0 == [f \in Formats |-> Dec(f, 0, BFromInt(0), 1)]

Lit_0_5 == [f \in Formats |-> Dec(f, 0, BFromInt(5), 1)]

Lit_1_0 == [f \in Formats |-> Dec(f, 0, BFromInt(10), 1)]

Lit_1_5 == [f \in Formats |-> Dec(f, 0, BFromInt(15), 1)]

Lit_2_0 == [f \in Formats |-> Dec(f, 0, BFromInt(20), 1)]

Lit_4_0 == [f \in Formats |-> Dec(f, 0, BFromInt(40), 1)]

\* unsigned arithmetic of f.bits bits: the exact result, whether it leaves
\* 0 .. 2^bits - 1, and the result modulo 2^bits
UAddOverflows(f, a, b) == BBitLen(BAdd(a, b)) > f.bits

UAddWrap(f, a, b) == BLow(BAdd(a, b), f.bits)

USubOverflows(f, a, b) == BLt(a, b)

USubWrap(f, a, b) == IF BLt(a, b) THEN BSub(BAdd(a, BPow2(f.bits)), b) ELSE BSub(a, b)

UMulOverflows(f, a, b) == BBitLen(BMul(a, b)) > f.bits

UMulWrap(f, a, b) == BLow(BMul(a, b), f.bits)

(***************************************************************************)
(* approx_inv_sqrt.rs                                                      *)
(***************************************************************************)
\* the power of two with the shift two short: 1 << (MANTISSA_DIGITS - 3)
L_two_short == [f \in Formats |-> BShl(BOne, f.MANTISSA_DIGITS - 3)]

\* const L: $bits = 1 << (MANTISSA_DIGITS as $bits - 1)
L == [f \in Formats |-> BShl(BOne, f.MANTISSA_DIGITS - 1)]

\* const SIGMA: f64 = 0.0450466
SIGMA == Dec(F64, 0, BFromInt(450466), 7)

\* the constant without the + 0.5 that rounds it: (1.5*L as f64*(EXP_BIAS as f64 - SIGMA)) as $bits
MAGIC_NUMBER_truncated ==
    [f \in Formats |->
        ToUint(F64,
               Mul(F64,
                   Mul(F64, Lit_1_5[F64], FromUint(F64, L[f])),
                   Sub(F64, FromUint(F64, BFromInt(f.EXP_BIAS)), SIGMA)),
               f.bits)]

\* const MAGIC_NUMBER: $bits = (1.5*L as f64*(EXP_BIAS as f64 - SIGMA) + 0.5) as $bits
MAGIC_NUMBER ==
    [f \in Formats |->
        ToUint(F64,
               Add(F64,
                   Mul(F64,
                       Mul(F64, Lit_1_5[F64], FromUint(F64, L[f])),
                       Sub(F64, FromUint(F64, BFromInt(f.EXP_BIAS)), SIGMA)),
                   Lit_0_5[F64]),
               f.bits)]

\* MAGIC_NUMBER - (to_bits(self) >> 1) leaves the unsigned range
inv_sqrt_seed_overflows(f, self) ==
    USubOverflows(f, MAGIC_NUMBER[f], BShr(to_bits(f, self), 1))

\* from_bits(MAGIC_NUMBER - (to_bits(self) >> 1)), the subtraction modulo 2^bits
inv_sqrt_seed(f, self) ==
    from_bits(f, USubWrap(f, MAGIC_NUMBER[f], BShr(to_bits(f, self), 1)))

\* let x2 = self*0.5
inv_sqrt_x2(f, self) == Mul(f, self, Lit_0_5[f])

\* y *= 1.5 - x2*y*y
inv_sqrt_step(f, x2, y) ==
    Mul(f, y, Sub(f, Lit_1_5[f], Mul(f, Mul(f, x2, y), y)))

\* while i < NEWTON
inv_sqrt_loop_guard(k, n) == k < n

\* while i < NEWTON { y *= 1.5 - x2*y*y; i += 1 }
RECURSIVE inv_sqrt_loop(_, _, _, _, _)
inv_sqrt_loop(f, x2, y, k, n) ==
    IF inv_sqrt_loop_guard(k, n)
    THEN Then(inv_sqrt_step(f, x2, y), LAMBDA y1 : inv_sqrt_loop(f, x2, y1, k + 1, n))
    ELSE y

\* the value approx_inv_sqrt_unchecked::<n> returns when it returns
approx_inv_sqrt_unchecked(f, self, n) ==
    inv_sqrt_loop(f, inv_sqrt_x2(f, self), inv_sqrt_seed(f, self), 0, n)

\* a guard that holds of everything that is not below zero: of 0.0, -0.0 and NaN too
inv_sqrt_guard_not_below(f, self) == ~Lt(f, self, Lit_0_0[f])

\* if self > 0.0
inv_sqrt_guard(f, self) == Gt(f, self, Lit_0_0[f])

\* the value approx_inv_sqrt::<n> returns when it returns
approx_inv_sqrt(f, self, n) ==
    IF inv_sqrt_guard(f, self) THEN approx_inv_sqrt_unchecked(f, self, n) ELSE NAN(f)

(***************************************************************************)
(* approx_sqrt.rs                                                          *)
(***************************************************************************)
\* 1 << (MANTISSA_DIGITS as $bits - 2)
sqrt_half_L == [f \in Formats |-> BShl(BOne, f.MANTISSA_DIGITS - 2)]

\* (EXP_BIAS + 1) * (1 << (MANTISSA_DIGITS - 2)), + (to_bits(self) >> 1),
\* - (1 << (MANTISSA_DIGITS - 2)): one of the three operations leaves the
\* unsigned range
sqrt_seed_overflows(f, self) ==
    LET b1 == BFromInt(f.EXP_BIAS + 1)
        p == UMulWrap(f, b1, sqrt_half_L[f])
        h == BShr(to_bits(f, self), 1)
    IN  \/ UAddOverflows(f, BFromInt(f.EXP_BIAS), BOne)
        \/ UMulOverflows(f, b1, sqrt_half_L[f])
        \/ UAddOverflows(f, p, h)
        \/ USubOverflows(f, UAddWrap(f, p, h), sqrt_half_L[f])

\* from_bits of the same, each operation modulo 2^bits
sqrt_seed(f, self) ==
    LET b1 == UAddWrap(f, BFromInt(f.EXP_BIAS), BOne)
        p == UMulWrap(f, b1, sqrt_half_L[f])
        h == BShr(to_bits(f, self), 1)
    IN  from_bits(f, USubWrap(f, UAddWrap(f, p, h), sqrt_half_L[f]))

\* the sum of the step without its halving
sqrt_step_unhalved(f, y) == Add(f, y, Div(f, Lit_2_0[f], y))

\* y = (y + 2.0/y)/2.0
sqrt_step(f, y) == Div(f, Add(f, y, Div(f, Lit_2_0[f], y)), Lit_2_0[f])

\* a loop condition that admits one more turn: i <= NEWTON
sqrt_loop_guard_inclusive(k, n) == k <= n

\* while i < NEWTON
sqrt_loop_guard(k, n) == k < n

\* while i < NEWTON { y = (y + 2.0/y)/2.0; i += 1 }
RECURSIVE sqrt_loop(_, _, _, _)
sqrt_loop(f, y, k, n) ==
    IF sqrt_loop_guard(k, n)
    THEN Then(sqrt_step(f, y), LAMBDA y1 : sqrt_loop(f, y1, k + 1, n))
    ELSE y

\* the value approx_sqrt::<n> returns
approx_sqrt(f, self, n) == sqrt_loop(f, sqrt_seed(f, self), 0, n)

(***************************************************************************)
(* The parts of core and of the crates polynomial_ops and array__ops that  *)
(* approx_sin.rs and approx_cos.rs use.                                    *)
(***************************************************************************)
\* core::f32::consts::FRAC_2_PI, core::f64::consts::FRAC_2_PI:
\* 0.636619772367581343075535053490057448
FRAC_2_PI ==
    [f \in Formats |->
        Dec(f, 0,
            BFromGroups(<<6366, 1977, 2367, 5813, 4307, 5535, 534, 9005, 7448>>, 9),
            36)]

\* an integer as a float
FromInt(f, n) ==
    IF n < 0 THEN Neg(FromUint(f, BFromInt(0 - n))) ELSE FromUint(f, BFromInt(n))

\* ChebyshevPolynomial::new_of_first_kind(n) as [_; 6]: the coefficients of T_n,
\* lowest power first, by T_0 = 1, T_1 = z, T_n = 2 z T_(n-1) - T_(n-2); row n + 1
\* holds T_n
RECURSIVE new_of_first_kind(_)
new_of_first_kind(n) ==
    IF n = 0 THEN <<1, 0, 0, 0, 0, 0>>
    ELSE IF n = 1 THEN <<0, 1, 0, 0, 0, 0>>
    ELSE LET a == new_of_first_kind(n - 1)
             b == new_of_first_kind(n - 2)
         IN  [j \in 1..6 |-> 2 * (IF j > 1 THEN a[j - 1] ELSE 0) - b[j]]

ChebyshevT == [n \in 1..6 |-> new_of_first_kind(n - 1)]

\* p.evaluate_as_polynomial(z): Horner's rule from the highest power down
RECURSIVE Horner(_, _, _, _)
Horner(f, p, z, j) ==
    IF j = Len(p) THEN p[j]
    ELSE Add(f, Mul(f, Horner(f, p, z, j + 1), z), p[j])

evaluate_as_polynomial(f, p, z) == Horner(f, p, z, 1)

(***************************************************************************)
(* approx_sin.rs                                                           *)
(***************************************************************************)
\* const C: [$float; N]
sin_C ==
    [f \in Formats |->
        << Dec(f, 0, BFromInt(1276278962), 9),
           Dec(f, 1, BFromInt(285261569), 9),
           Dec(f, 0, BFromInt(9118016), 9),
           Dec(f, 1, BFromInt(136587), 9),
           Dec(f, 0, BFromInt(1185), 9),
           Dec(f, 1, BFromInt(7), 9) >>]

\* let t = ArrayOps::fill(|n| ChebyshevPolynomial::new_of_first_kind(n)): row n + 1
\* holds the coefficients of T_n, lowest power first
sin_t ==
    [f \in Formats |-> [n \in 1..6 |-> [j \in 1..6 |-> FromInt(f, ChebyshevT[n][j])]]]

\* t.zip(C).map2(|(t, c)| t.map2(|tn| c*tn))
sin_scaled ==
    [f \in Formats |->
        [n \in 1..6 |-> [j \in 1..6 |-> Mul(f, sin_C[f][n], sin_t[f][n][j])]]]

\* .reduce(|a, b| a.zip(b).map2(|(a, b)| a + b)): the rows 1 .. n summed from the left
sin_reduce ==
    [f \in Formats |->
        [j \in 1..6 |->
            Add(f, Add(f, Add(f, Add(f, Add(f, sin_scaled[f][1][j],
                                               sin_scaled[f][2][j]),
                                        sin_scaled[f][3][j]),
                                 sin_scaled[f][4][j]),
                          sin_scaled[f][5][j]),
                   sin_scaled[f][6][j])]]

\* let p: [$float; N]
sin_p == sin_reduce

\* let mut w = self*FRAC_2_PI
sin_scale(f, self) == Mul(f, self, FRAC_2_PI[f])

\* the loop body without its last statement, w %= 4.0
sin_fold_step_no_rem(f, w, k) ==
    LET w1 == Sub(f, w, Lit_1_0[f])
    IN  IF k % 2 = 0 /\ Lt(f, w1, Lit_0_0[f]) THEN Neg(w1) ELSE w1

\* w = (w - 1.0); if i % 2 == 0 && w < 0.0 { w = -w }; w %= 4.0
sin_fold_step(f, w, k) ==
    LET w1 == Sub(f, w, Lit_1_0[f])
        w2 == IF k % 2 = 0 /\ Lt(f, w1, Lit_0_0[f]) THEN Neg(w1) ELSE w1
    IN  Rem(f, w2, Lit_4_0[f])

\* a loop condition that ends the fold one turn early: i < 3
sin_fold_guard_three(k) == k < 3

\* while i < 4
sin_fold_guard(k) == k < 4

\* the fold loop from counter k on
RECURSIVE sin_fold(_, _, _)
sin_fold(f, w, k) ==
    IF sin_fold_guard(k)
    THEN Then(sin_fold_step(f, w, k), LAMBDA w1 : sin_fold(f, w1, k + 1))
    ELSE w

\* let w = if w > 1.0 {2.0 - w} else if w < -1.0 {-2.0 - w} else {w}
sin_clamp(f, w) ==
    IF Gt(f, w, Lit_1_0[f]) THEN Sub(f, Lit_2_0[f], w)
    ELSE IF Lt(f, w, Neg(Lit_1_0[f])) THEN Sub(f, Neg(Lit_2_0[f]), w)
    ELSE w

\* let z = 2.0*w*w - 1.0
sin_z(f, w) == Sub(f, Mul(f, Mul(f, Lit_2_0[f], w), w), Lit_1_0[f])

\* p.evaluate_as_polynomial(z)*w
sin_eval(f, z, w) == Mul(f, evaluate_as_polynomial(f, sin_p[f], z), w)

\* the folded variable that the fold loop and the clamp make of the scaled w0
sin_folded_from(f, w0) == Then(sin_fold(f, w0, 0), LAMBDA w : sin_clamp(f, w))

\* the value that the body returns from the scaled w0 on
sin_from(f, w0) ==
    Then(sin_folded_from(f, w0),
         LAMBDA w : Then(sin_z(f, w), LAMBDA z : sin_eval(f, z, w)))

\* the folded variable the polynomial is evaluated at
sin_folded(f, self) == Then(sin_scale(f, self), LAMBDA w0 : sin_folded_from(f, w0))

\* the value approx_sin returns
approx_sin(f, self) == Then(sin_scale(f, self), LAMBDA w0 : sin_from(f, w0))

(***************************************************************************)
(* approx_cos.rs                                                           *)
(***************************************************************************)
\* const C: [$float; N]
cos_C ==
    [f \in Formats |->
        << Dec(f, 0, BFromInt(1276278962), 9),
           Dec(f, 1, BFromInt(285261569), 9),
           Dec(f, 0, BFromInt(9118016), 9),
           Dec(f, 1, BFromInt(136587), 9),
           Dec(f, 0, BFromInt(1185), 9),
           Dec(f, 1, BFromInt(7), 9) >>]

\* let t = ArrayOps::fill(|n| ChebyshevPolynomial::new_of_first_kind(n)): row n + 1
\* holds the coefficients of T_n, lowest power first
cos_t ==
    [f \in Formats |-> [n \in 1..6 |-> [j \in 1..6 |-> FromInt(f, ChebyshevT[n][j])]]]

\* t.zip(C).map2(|(t, c)| t.map2(|tn| c*tn))
cos_scaled ==
    [f \in Formats |->
        [n \in 1..6 |-> [j \in 1..6 |-> Mul(f, cos_C[f][n], cos_t[f][n][j])]]]

\* .reduce(|a, b| a.zip(b).map2(|(a, b)| a + b)): the rows 1 .. n summed from the left
cos_reduce ==
    [f \in Formats |->
        [j \in 1..6 |->
            Add(f, Add(f, Add(f, Add(f, Add(f, cos_scaled[f][1][j],
                                               cos_scaled[f][2][j]),
                                        cos_scaled[f][3][j]),
                                 cos_scaled[f][4][j]),
                          cos_scaled[f][5][j]),
                   cos_scaled[f][6][j])]]

\* let p: [$float; N]
cos_p == cos_reduce

\* let mut w = self*FRAC_2_PI + 1.0
cos_scale(f, self) == Add(f, Mul(f, self, FRAC_2_PI[f]), Lit_1_0[f])

\* w = (w - 1.0); if i % 2 == 0 && w < 0.0 { w = -w }; w %= 4.0
cos_fold_step(f, w, k) ==
    LET w1 == Sub(f, w, Lit_1_0[f])
        w2 == IF k % 2 = 0 /\ Lt(f, w1, Lit_0_0[f]) THEN Neg(w1) ELSE w1
    IN  Rem(f, w2, Lit_4_0[f])

\* while i < 4
cos_fold_guard(k) == k < 4

\* the fold loop from counter k on
RECURSIVE cos_fold(_, _, _)
cos_fold(f, w, k) ==
    IF cos_fold_guard(k)
    THEN Then(cos_fold_step(f, w, k), LAMBDA w1 : cos_fold(f, w1, k + 1))
    ELSE w

\* let w = if w > 1.0 {2.0 - w} else if w < -1.0 {-2.0 - w} else {w}
cos_clamp(f, w) ==
    IF Gt(f, w, Lit_1_0[f]) THEN Sub(f, Lit_2_0[f], w)
    ELSE IF Lt(f, w, Neg(Lit_1_0[f])) THEN Sub(f, Neg(Lit_2_0[f]), w)
    ELSE w

\* the map without its shift: 2.0*w*w
cos_z_unshifted(f, w) == Mul(f, Mul(f, Lit_2_0[f], w), w)

\* let z = 2.0*w*w - 1.0
cos_z(f, w) == Sub(f, Mul(f, Mul(f, Lit_2_0[f], w), w), Lit_1_0[f])

\* p.evaluate_as_polynomial(z)*w
cos_eval(f, z, w) == Mul(f, evaluate_as_polynomial(f, cos_p[f], z), w)

\* the folded variable that the fold loop and the clamp make of the scaled w0
cos_folded_from(f, w0) == Then(cos_fold(f, w0, 0), LAMBDA w : cos_clamp(f, w))

\* the value that the body returns from the scaled w0 on
cos_from(f, w0) ==
    Then(cos_folded_from(f, w0),
         LAMBDA w : Then(cos_z(f, w), LAMBDA z : cos_eval(f, z, w)))

\* the folded variable the polynomial is evaluated at
cos_folded(f, self) == Then(cos_scale(f, self), LAMBDA w0 : cos_folded_from(f, w0))

\* the value approx_cos returns
approx_cos(f, self) == Then(cos_scale(f, self), LAMBDA w0 : cos_from(f, w0))

(***************************************************************************)
(* The calls the model makes.                                             *)
(***************************************************************************)
\* the largest const NEWTON a call is made with
MaxNewton == 3

\* bit patterns from 16-bit groups, most significant first
U32(a, b) == BAdd(BShl(BFromInt(a), 16), BFromInt(b))

U64(a, b, c, d) == BAdd(BShl(U32(a, b), 32), U32(c, d))

\* the argument with the sign bit set as well
WithNegatives(f, us) == us \cup {BAdd(u, BPow2(f.bits - 1)) : u \in us}

\* 2 * MAGIC_NUMBER + k: for k = 1 the shifted pattern is MAGIC_NUMBER itself,
\* for k = 2 it is the first that exceeds it
AroundMagic(f) == {BAdd(BShl(MAGIC_NUMBER[f], 1), BFromInt(k)) : k \in {1, 2}}

\* arguments of approx_sqrt, approx_inv_sqrt and approx_inv_sqrt_unchecked:
\* 0, the least subnormal, the least normal, 0.25, 1, 2, 4, 9, the greatest finite
\* value, infinity, NaN and all bits set; -0, -1, -4, -infinity, NaN with the sign set
NewtonBits ==
    [f \in Formats |->
        IF f = F32
        THEN {U32(\H0000, \H0000), U32(\H0000, \H0001), U32(\H0080, \H0000),
              U32(\H3E80, \H0000), U32(\H3F80, \H0000), U32(\H4000, \H0000),
              U32(\H4080, \H0000), U32(\H4110, \H0000), U32(\H7F7F, \HFFFF),
              U32(\H7F80, \H0000), U32(\H7FC0, \H0000), U32(\HFFFF, \HFFFF),
              U32(\H8000, \H0000), U32(\HBF80, \H0000), U32(\HC080, \H0000),
              U32(\HFF80, \H0000), U32(\HFFC0, \H0000)}
             \cup AroundMagic(f)
        ELSE {U64(\H0000, \H0000, \H0000, \H0000), U64(\H0000, \H0000, \H0000, \H0001),
              U64(\H0010, \H0000, \H0000, \H0000), U64(\H3FD0, \H0000, \H0000, \H0000),
              U64(\H3FF0, \H0000, \H0000, \H0000), U64(\H4000, \H0000, \H0000, \H0000),
              U64(\H4010, \H0000, \H0000, \H0000), U64(\H7FEF, \HFFFF, \HFFFF, \HFFFF),
              U64(\H7FF0, \H0000, \H0000, \H0000), U64(\H7FF8, \H0000, \H0000, \H0000),
              U64(\HFFFF, \HFFFF, \HFFFF, \HFFFF), U64(\H8000, \H0000, \H0000, \H0000),
              U64(\HBFF0, \H0000, \H0000, \H0000), U64(\HFFF0, \H0000, \H0000, \H0000)}
             \cup AroundMagic(f)]

\* arguments of approx_sin and approx_cos, each with its negation: 0, the least
\* subnormal, 9.4e-8, 0.5, 1, pi/2, 2, 3, pi, 5.5679, tau, 10, 10.9956, 11.0049,
\* 11.1209, 12.3912, 12.5164, 2 tau rounded down and up, 100, 2^24 + 2, 1e10, the
\* greatest finite value, infinity; and NaN
TrigBits ==
    [f \in Formats |->
        IF f = F32
        THEN WithNegatives(f,
                {U32(\H0000, \H0000), U32(\H0000, \H0001), U32(\H33CA, \H0000),
                 U32(\H3F00, \H0000), U32(\H3F80, \H0000), U32(\H3FC9, \H0FDB),
                 U32(\H4000, \H0000), U32(\H4040, \H0000), U32(\H4049, \H0FDB),
                 U32(\H40B2, \H2C4E), U32(\H40C9, \H0FDB), U32(\H4120, \H0000),
                 U32(\H412F, \HEDE2), U32(\H4130, \H1431), U32(\H4131, \HEF3F),
                 U32(\H4146, \H4274), U32(\H4148, \H4334),
                 U32(\H4149, \H0FDA), U32(\H4149, \H0FDB),
                 U32(\H42C8, \H0000), U32(\H4B80, \H0001), U32(\H5015, \H02F9),
                 U32(\H7F7F, \HFFFF), U32(\H7F80, \H0000)})
             \cup {U32(\H7FC0, \H0000)}
        ELSE WithNegatives(f,
                {U64(\H0000, \H0000, \H0000, \H0000), U64(\H0000, \H0000, \H0000, \H0001),
                 U64(\H3FD6, \H46A8, \HF0AC, \H6528), U64(\H3FE0, \H0000, \H0000, \H0000),
                 U64(\H3FF0, \H0000, \H0000, \H0000), U64(\H3FF9, \H21FB, \H5444, \H2D18),
                 U64(\H4000, \H0000, \H0000, \H0000), U64(\H4009, \H21FB, \H5444, \H2D18),
                 U64(\H4024, \H0000, \H0000, \H0000), U64(\H4029, \H21FB, \H5444, \H2D18),
                 U64(\H4202, \HA05F, \H2000, \H0000), U64(\H7FEF, \HFFFF, \HFFFF, \HFFFF),
                 U64(\H7FF0, \H0000, \H0000, \H0000)})
             \cup {U64(\H7FF8, \H0000, \H0000, \H0000)}]

NewtonFuncs == {"approx_sqrt", "approx_inv_sqrt", "approx_inv_sqrt_unchecked"}

TrigFuncs == {"approx_sin", "approx_cos"}

\* the value of a local that has not been assigned
Unset == Float(0, 0 - 1, BZero)

(***************************************************************************)
(* One call: the function, the float type, the const generic NEWTON, the   *)
(* argument, the place in the body (pc), the locals i, y, x2, w (the mut   *)
(* w of the fold), wc (the w that shadows it), z, and the returned value.  *)
(* applied counts the update steps taken and wrapped records that the      *)
(* seed's unsigned arithmetic left its range in a build that wraps.        *)
(***************************************************************************)
VARIABLES func, float, NEWTON, self, pc, i, y, x2, w, wc, z, ret, applied, wrapped

vars == <<func, float, NEWTON, self, pc, i, y, x2, w, wc, z, ret, applied, wrapped>>

Init ==
    /\ func \in NewtonFuncs \cup TrigFuncs
    /\ float \in Formats
    /\ NEWTON \in (IF func \in NewtonFuncs THEN 0..MaxNewton ELSE {0})
    /\ self \in {from_bits(float, u) :
                    u \in IF func \in NewtonFuncs THEN NewtonBits[float]
                                                  ELSE TrigBits[float]}
    /\ pc = "call"
    /\ i = 0
    /\ y = Unset
    /\ x2 = Unset
    /\ w = Unset
    /\ wc = Unset
    /\ z = Unset
    /\ ret = Unset
    /\ applied = 0
    /\ wrapped = FALSE

\* approx_inv_sqrt: if self > 0.0 { self.approx_inv_sqrt_unchecked() } else { NAN }
InvSqrtCheck ==
    /\ func = "approx_inv_sqrt"
    /\ pc = "call"
    /\ IF inv_sqrt_guard(float, self)
       THEN pc' = "unchecked" /\ ret' = ret
       ELSE pc' = "done" /\ ret' = NAN(float)
    /\ UNCHANGED <<func, float, NEWTON, self, i, y, x2, w, wc, z, applied, wrapped>>

\* What the seed's subtraction can do: a build with overflow checks (and constant
\* evaluation) aborts when it leaves the unsigned range, a build without wraps.
SeedOutcomes(overflows) ==
    IF overflows THEN {"panic", "wrap"} ELSE {"exact"}

\* approx_inv_sqrt_unchecked, to the head of its loop
InvSqrtSeed ==
    /\ \/ func = "approx_inv_sqrt_unchecked" /\ pc = "call"
       \/ func = "approx_inv_sqrt" /\ pc = "unchecked"
    /\ \E o \in SeedOutcomes(inv_sqrt_seed_overflows(float, self)) :
          IF o = "panic"
          THEN pc' = "panic" /\ UNCHANGED <<y, x2, wrapped>>
          ELSE /\ pc' = "newton"
               /\ y' = inv_sqrt_seed(float, self)
               /\ x2' = inv_sqrt_x2(float, self)
               /\ wrapped' = (o = "wrap")
    /\ i' = 0
    /\ UNCHANGED <<func, float, NEWTON, self, w, wc, z, ret, applied>>

\* one turn of the loop of approx_inv_sqrt_unchecked
InvSqrtNewton ==
    /\ func \in {"approx_inv_sqrt", "approx_inv_sqrt_unchecked"}
    /\ pc = "newton"
    /\ inv_sqrt_loop_guard(i, NEWTON)
    /\ y' = inv_sqrt_step(float, x2, y)
    /\ i' = i + 1
    /\ applied' = applied + 1
    /\ UNCHANGED <<func, float, NEWTON, self, pc, x2, w, wc, z, ret, wrapped>>

\* the loop of approx_inv_sqrt_unchecked ends and y is returned
InvSqrtReturn ==
    /\ func \in {"approx_inv_sqrt", "approx_inv_sqrt_unchecked"}
    /\ pc = "newton"
    /\ ~inv_sqrt_loop_guard(i, NEWTON)
    /\ ret' = y
    /\ pc' = "done"
    /\ UNCHANGED <<func, float, NEWTON, self, i, y, x2, w, wc, z, applied, wrapped>>

\* approx_sqrt, to the head of its loop
SqrtSeed ==
    /\ func = "approx_sqrt"
    /\ pc = "call"
    /\ \E o \in SeedOutcomes(sqrt_seed_overflows(float, self)) :
          IF o = "panic"
          THEN pc' = "panic" /\ UNCHANGED <<y, wrapped>>
          ELSE /\ pc' = "newton"
               /\ y' = sqrt_seed(float, self)
               /\ wrapped' = (o = "wrap")
    /\ i' = 0
    /\ UNCHANGED <<func, float, NEWTON, self, x2, w, wc, z, ret, applied>>

\* one turn of the loop of approx_sqrt
SqrtNewton ==
    /\ func = "approx_sqrt"
    /\ pc = "newton"
    /\ sqrt_loop_guard(i, NEWTON)
    /\ y' = sqrt_step(float, y)
    /\ i' = i + 1
    /\ applied' = applied + 1
    /\ UNCHANGED <<func, float, NEWTON, self, pc, x2, w, wc, z, ret, wrapped>>

\* the loop of approx_sqrt ends and y is returned
SqrtReturn ==
    /\ func = "approx_sqrt"
    /\ pc = "newton"
    /\ ~sqrt_loop_guard(i, NEWTON)
    /\ ret' = y
    /\ pc' = "done"
    /\ UNCHANGED <<func, float, NEWTON, self, i, y, x2, w, wc, z, applied, wrapped>>

\* approx_sin, to the head of its loop
SinStart ==
    /\ func = "approx_sin"
    /\ pc = "call"
    /\ w' = sin_scale(float, self)
    /\ i' = 0
    /\ pc' = "fold"
    /\ UNCHANGED <<func, float, NEWTON, self, y, x2, wc, z, ret, applied, wrapped>>

\* one turn of the loop of approx_sin
SinFold ==
    /\ func = "approx_sin"
    /\ pc = "fold"
    /\ sin_fold_guard(i)
    /\ w' = sin_fold_step(float, w, i)
    /\ i' = i + 1
    /\ UNCHANGED <<func, float, NEWTON, self, pc, y, x2, wc, z, ret, applied, wrapped>>

\* the loop of approx_sin ends: the clamp, z and the polynomial
SinFinish ==
    /\ func = "approx_sin"
    /\ pc = "fold"
    /\ ~sin_fold_guard(i)
    /\ wc' = sin_clamp(float, w)
    /\ z' = sin_z(float, wc')
    /\ ret' = sin_eval(float, z', wc')
    /\ pc' = "done"
    /\ UNCHANGED <<func, float, NEWTON, self, i, y, x2, w, applied, wrapped>>

\* approx_cos, to the head of its loop
CosStart ==
    /\ func = "approx_cos"
    /\ pc = "call"
    /\ w' = cos_scale(float, self)
    /\ i' = 0
    /\ pc' = "fold"
    /\ UNCHANGED <<func, float, NEWTON, self, y, x2, wc, z, ret, applied, wrapped>>

\* one turn of the loop of approx_cos
CosFold ==
    /\ func = "approx_cos"
    /\ pc = "fold"
    /\ cos_fold_guard(i)
    /\ w' = cos_fold_step(float, w, i)
    /\ i' = i + 1
    /\ UNCHANGED <<func, float, NEWTON, self, pc, y, x2, wc, z, ret, applied, wrapped>>

\* the loop of approx_cos ends: the clamp, z and the polynomial
CosFinish ==
    /\ func = "approx_cos"
    /\ pc = "fold"
    /\ ~cos_fold_guard(i)
    /\ wc' = cos_clamp(float, w)
    /\ z' = cos_z(float, wc')
    /\ ret' = cos_eval(float, z', wc')
    /\ pc' = "done"
    /\ UNCHANGED <<func, float, NEWTON, self, i, y, x2, w, applied, wrapped>>

Next ==
    \/ InvSqrtCheck
    \/ InvSqrtSeed
    \/ InvSqrtNewton
    \/ InvSqrtReturn
    \/ SqrtSeed
    \/ SqrtNewton
    \/ SqrtReturn
    \/ SinStart
    \/ SinFold
    \/ SinFinish
    \/ CosStart
    \/ CosFold
    \/ CosFinish

Spec == Init /\ [][Next]_vars

\* The control flow of the two refinement loops: a turn is taken (i += 1) while
\* the loop condition holds, and the loop is left when it does not.  A step of
\* Next is a NewtonTurn exactly if it is SqrtNewton or InvSqrtNewton, a NewtonExit
\* exactly if it is SqrtReturn or InvSqrtReturn, and these are enabled in the same
\* states: a turn's arithmetic is defined for every y.
NewtonGuard ==
    IF func = "approx_sqrt" THEN sqrt_loop_guard(i, NEWTON)
    ELSE inv_sqrt_loop_guard(i, NEWTON)

NewtonTurn ==
    func \in NewtonFuncs /\ pc = "newton" /\ NewtonGuard /\ i' = i + 1 /\ pc' = pc

NewtonExit ==
    func \in NewtonFuncs /\ pc = "newton" /\ ~NewtonGuard /\ pc' = "done" /\ i' = i

\* a call that is in a loop goes on running: sequential code is not suspended
FairSpec == Spec /\ WF_<<pc, i>>(NewtonTurn) /\ WF_<<pc, i>>(NewtonExit)

(***************************************************************************)
(* The claims.                                                             *)
(***************************************************************************)
\* C1: every Newton step of approx_sqrt computes y <- (y + c/y)/2 with c the input
\* self, so that a y whose square is self is returned unchanged by the step
C1_StepUsesInput ==
    [][SqrtNewton =>
         /\ y' = Div(float, Add(float, y, Div(float, self, y)), Lit_2_0[float])
         /\ (Mul(float, y, y) = self => y' = y)]_vars

\* C2: no call aborts, and the unsigned arithmetic of the seeds never leaves
\* 0 .. 2^bits - 1
C2_SeedStaysInRange == pc # "panic" /\ wrapped = FALSE

\* a float that is strictly greater than zero, read off its bit pattern
IsPositive(f, a) == a.sign = 0 /\ ~IsNaN(f, a) /\ ~IsZero(a)

\* C3: when the checked approx_inv_sqrt has returned, then for an argument that
\* is not strictly greater than zero (negative, 0.0, -0.0, NaN) the value is NaN
\* and neither the seed nor a Newton step has run, and for an argument greater
\* than zero the value is that of approx_inv_sqrt_unchecked for the same
\* argument and NEWTON
C3_CheckedInvSqrt ==
    (func = "approx_inv_sqrt" /\ pc = "done") =>
        IF IsPositive(float, self)
        THEN ret = approx_inv_sqrt_unchecked(float, self, NEWTON)
        ELSE /\ IsNaN(float, ret)
             /\ y = Unset
             /\ x2 = Unset
             /\ applied = 0

\* a call of approx_inv_sqrt::<NEWTON> with NEWTON > 0 on a negative number has
\* returned NaN
C3_Witness ==
    /\ func = "approx_inv_sqrt"
    /\ pc = "done"
    /\ NEWTON > 0
    /\ self.sign = 1
    /\ ~IsNaN(float, self)
    /\ ~IsZero(self)
    /\ IsNaN(float, ret)

\* -1 <= a <= 1, read off the bit pattern: a is no NaN and its magnitude is at
\* most that of 1.0
InUnit(f, a) ==
    /\ ~IsNaN(f, a)
    /\ \/ a.exp < f.EXP_BIAS
       \/ a.exp = f.EXP_BIAS /\ a.frac = BZero

\* C4: when approx_sin or approx_cos has returned for a finite argument, the
\* folded variable that was passed to the polynomial (the w after the four fold
\* steps and the clamp) satisfies -1 <= w <= 1
C4_FoldedInUnit ==
    (func \in TrigFuncs /\ pc = "done" /\ IsFinite(float, self)) => InUnit(float, wc)

\* approx_cos has returned for a finite negative argument of magnitude at least
\* 8, whose scaled value is outside [-4, 4], and the folded variable is in [-1, 1]
C4_Witness ==
    /\ func = "approx_cos"
    /\ pc = "done"
    /\ IsFinite(float, self)
    /\ self.sign = 1
    /\ self.exp >= float.EXP_BIAS + 3
    /\ InUnit(float, wc)

\* the literals 1.5, 1.4166666666666665, 1.4142156862745097 and
\* 1.4142135623746899 as f64, by the number of Newton steps
C5_Expected ==
    [k \in 0..3 |->
        IF k = 0 THEN Dec(F64, 0, BFromInt(15), 1)
        ELSE IF k = 1 THEN Dec(F64, 0, BFromGroups(<<1, 4166, 6666, 6666, 6665>>, 5), 16)
        ELSE IF k = 2 THEN Dec(F64, 0, BFromGroups(<<1, 4142, 1568, 6274, 5097>>, 5), 16)
        ELSE Dec(F64, 0, BFromGroups(<<1, 4142, 1356, 2374, 6899>>, 5), 16)]

\* the iterates of y <- (y + 2/y)/2 from 3/2 in exact arithmetic, as <<p, q>>
C5_Iterate == [k \in 0..3 |-> <<<<3, 2>>, <<17, 12>>, <<577, 408>>, <<665857, 470832>>>>[k + 1]]

\* a in [1, 2) differs from p/q by at most one unit in a's last place:
\* |Sig * q - p * 2^MantBits| <= q
NearRatio(f, a, p, q) ==
    /\ a.sign = 0
    /\ a.exp = f.EXP_BIAS
    /\ BLe(BMul(Sig(f, a), BFromInt(q)), BAdd(BShl(BFromInt(p), MantBits(f)), BFromInt(q)))
    /\ BLe(BShl(BFromInt(p), MantBits(f)), BAdd(BMul(Sig(f, a), BFromInt(q)), BFromInt(q)))

\* C5: when approx_sqrt::<K> has returned for the f64 2.0 and K is 0, 1, 2 or 3,
\* the value is the f64 the literal 1.5, 1.4166666666666665, 1.4142156862745097,
\* 1.4142135623746899 denotes, and it is the exact iterate 3/2, 17/12, 577/408,
\* 665857/470832 up to one unit in the last place
C5_SqrtOfTwo ==
    (/\ func = "approx_sqrt"
     /\ float = F64
     /\ self = Lit_2_0[F64]
     /\ pc = "done"
     /\ NEWTON \in DOMAIN C5_Expected) =>
        /\ ret = C5_Expected[NEWTON]
        /\ NearRatio(F64, ret, C5_Iterate[NEWTON][1], C5_Iterate[NEWTON][2])

\* approx_sqrt::<3> has returned 1.4142135623746899 for the f64 2.0
C5_Witness ==
    /\ func = "approx_sqrt"
    /\ float = F64
    /\ self = Lit_2_0[F64]
    /\ pc = "done"
    /\ NEWTON = 3
    /\ applied = 3
    /\ ret = C5_Expected[3]

\* 0x5f3759df
C6_Magic == U32(\H5F37, \H59DF)

\* the integer part of 1.5 * 2^23 * (127 - 0.0450466) + 0.5 in exact arithmetic:
\* of (12582912 * 1269549534 + 5000000) / 10^7
C6_Exact ==
    BDivMod(BAdd(BMul(BFromInt(12582912), BFromInt(1269549534)), BFromInt(5000000)),
            BPow10(7))[1]

\* C6: the MAGIC_NUMBER of the f32 instance, which the code computes in f64 as
\* (1.5 * 2^23 * (127 - 0.0450466) + 0.5) as u32, is 0x5f3759df, as is the
\* integer part of that expression's exact value; and the seed of an f32 call
\* whose subtraction stays in range has the bits 0x5f3759df - (bits of self >> 1)
C6_MagicNumber ==
    /\ MAGIC_NUMBER[F32] = C6_Magic
    /\ C6_Exact = C6_Magic
    /\ (/\ func \in {"approx_inv_sqrt", "approx_inv_sqrt_unchecked"}
        /\ float = F32
        /\ pc = "newton"
        /\ i = 0
        /\ ~wrapped) =>
            BAdd(to_bits(F32, y), BShr(to_bits(F32, self), 1)) = C6_Magic

\* the seed of approx_inv_sqrt_unchecked for the f32 1.0 (bits 0x3f800000) has
\* been computed: its bits are 0x5f3759df - 0x1fc00000 = 0x3f7759df
C6_Witness ==
    /\ func = "approx_inv_sqrt_unchecked"
    /\ float = F32
    /\ self = Lit_1_0[F32]
    /\ pc = "newton"
    /\ i = 0
    /\ to_bits(F32, y) = U32(\H3F77, \H59DF)

\* a call is at the head of the refinement loop
C7_InLoop == func \in NewtonFuncs /\ pc = "newton"

\* approx_sqrt or approx_inv_sqrt_unchecked has returned
C7_Returned == func \in {"approx_sqrt", "approx_inv_sqrt_unchecked"} /\ pc = "done"

\* the bit-pattern seed of the call
C7_Seed ==
    IF func = "approx_sqrt" THEN sqrt_seed(float, self) ELSE inv_sqrt_seed(float, self)

NumEq(a, b) == a = b \/ (IsZero(a) /\ IsZero(b))

\* C8: when approx_sin has returned for a finite argument, the folded variable
\* of approx_sin at the negated argument is the negation of the folded variable
\* of this call; when approx_cos has returned for a finite argument, the folded
\* variable of approx_cos at the negated argument is that of this call
C8_OddAndEven ==
    (func \in TrigFuncs /\ pc = "done" /\ IsFinite(float, self)) =>
        IF func = "approx_sin"
        THEN NumEq(sin_folded(float, Neg(self)), Neg(wc))
        ELSE NumEq(cos_folded(float, Neg(self)), wc)

\* C9: when approx_cos has returned, its folded variable and its value are those
\* that the fold, the clamp and the polynomial evaluation of approx_sin produce
\* from the scaled argument w0 + 1, where w0 = self * FRAC_2_PI is the scaled
\* argument of approx_sin
C9_CosIsShiftedSin ==
    (func = "approx_cos" /\ pc = "done") =>
        /\ wc = sin_folded_from(float, Add(float, sin_scale(float, self), Lit_1_0[float]))
        /\ ret = sin_from(float, Add(float, sin_scale(float, self), Lit_1_0[float]))

\* approx_cos has returned a number for a finite argument of magnitude at least 1
C9_Witness ==
    /\ func = "approx_cos"
    /\ pc = "done"
    /\ IsFinite(float, self)
    /\ self.exp >= float.EXP_BIAS
    /\ ~IsNaN(float, ret)
    /\ ~IsZero(ret)
    /\ ret = sin_from(float, cos_scale(float, self))

(***************************************************************************)
(* The exact sine and cosine, for C10: fixed-point numbers with 80 binary  *)
(* places, a natural n standing for n / 2^80, and the power series         *)
(*   sin x = x * (1 - r_0 + r_0 r_1 - ...), r_k = x^2 / ((2k + 2)(2k + 3)) *)
(*   cos x =      1 - r_0 + r_0 r_1 - ...,  r_k = x^2 / ((2k + 1)(2k + 2)) *)
(* summed over k = 0 .. 37, the first term left out being below 2^-85 for  *)
(* |x| <= 13.  Every product and quotient is truncated, so a sum is off by *)
(* less than 2^-50.                                                        *)
(***************************************************************************)
\* |a| in fixed point, truncated, for a finite a
ToFix(f, a) ==
    IF Exp2(f, a) + 80 >= 0 THEN BShl(Sig(f, a), Exp2(f, a) + 80)
    ELSE BShr(Sig(f, a), 0 - (Exp2(f, a) + 80))

FixMul(a, b) == BShr(BMul(a, b), 80)

\* l and r are <<P, E, O>> for two adjacent ranges of k: the product P of the
\* r_k of the range, and the sums E and O of the products of the r_k from the
\* start of the range up to k, over the k at an even and at an odd distance
\* from the start; odd is 1 if the left range has an odd number of k
SeriesJoin(l, r, odd) ==
    << FixMul(l[1], r[1]),
       BAdd(l[2], FixMul(l[1], r[2 + odd])),
       BAdd(l[3], FixMul(l[1], r[3 - odd])) >>

\* <<P, E, O>> for the k in a .. b - 1, where r_k = xx / ((2k + j + 1)(2k + j + 2))
RECURSIVE SeriesSplit(_, _, _, _)
SeriesSplit(xx, j, a, b) ==
    IF b = a + 1
    THEN << BDivSmall(xx, (2 * a + j + 1) * (2 * a + j + 2)), BPow2(80), BZero >>
    ELSE SeriesJoin(SeriesSplit(xx, j, a, (a + b) \div 2),
                    SeriesSplit(xx, j, (a + b) \div 2, b),
                    ((a + b) \div 2 - a) % 2)

\* 1 - r_0 + r_0 r_1 - ... as <<sign, magnitude>>
Series(xx, j) ==
    Then(SeriesSplit(xx, j, 0, 38),
         LAMBDA s : IF BLe(s[3], s[2]) THEN <<0, BSub(s[2], s[3])>>
                    ELSE <<1, BSub(s[3], s[2])>>)

\* sin x as <<sign, magnitude>>: an odd function
ExactSin(f, x) ==
    Then(ToFix(f, x),
         LAMBDA t : Then(Series(FixMul(t, t), 1),
                         LAMBDA r : <<(r[1] + x.sign) % 2, FixMul(t, r[2])>>))

\* cos x as <<sign, magnitude>>
ExactCos(f, x) == Then(ToFix(f, x), LAMBDA t : Series(FixMul(t, t), 0))

\* |a - r| in fixed point for a finite float a and r = <<sign, magnitude>>
ErrFix(f, a, r) ==
    Then(ToFix(f, a),
         LAMBDA m : IF a.sign # r[1] THEN BAdd(m, r[2])
                    ELSE IF BLe(m, r[2]) THEN BSub(r[2], m)
                    ELSE BSub(m, r[2]))

\* 2 tau = 12.56637061435917295385..., and 5e-7, in fixed point
C10_TwoTau ==
    BDivMod(BShl(BFromGroups(<<12, 5663, 7061, 4359, 1729, 5385>>, 6), 80), BPow10(20))[1]

C10_Bound == BDivMod(BShl(BFromInt(5), 80), BPow10(7))[1]

\* the absolute error of the returned value against the exact sine or cosine
C10_Error ==
    ErrFix(float, ret,
           IF func = "approx_sin" THEN ExactSin(float, self) ELSE ExactCos(float, self))

\* C10: when approx_sin or approx_cos has returned for an f32 argument in
\* [-2 tau, 2 tau], the absolute error of the value against the exact sine or
\* cosine of the argument is below 5e-7
C10_ErrorBelowBound ==
    (/\ func \in TrigFuncs
     /\ float = F32
     /\ pc = "done"
     /\ IsFinite(float, self)
     /\ BLe(ToFix(float, self), C10_TwoTau)) => BLt(C10_Error, C10_Bound)


\* |a|
FAbs(a) == [a EXCEPT !.sign = 0]

\* the period-4 triangle wave | (|w0 - 1| mod 4) - 2 | - 1, each operation in
\* the float arithmetic
Triangle(f, w0) ==
    Sub(f,
        FAbs(Sub(f, Rem(f, FAbs(Sub(f, w0, Lit_1_0[f])), Lit_4_0[f]), Lit_2_0[f])),
        Lit_1_0[f])

\* the starting value of the fold loop of the call
C11_Start ==
    IF func = "approx_sin" THEN sin_scale(float, self) ELSE cos_scale(float, self)

\* approx_sin or approx_cos has returned for a finite argument; the starting
\* value of the loop is then finite too
C11_Folded == func \in TrigFuncs /\ pc = "done" /\ IsFinite(float, self)

\* the w at the exit of the loop is in [-1, 1], the clamp has left it as it is,
\* and it is the triangle wave of the starting value
C11_FoldIsTriangle ==
    /\ InUnit(float, w)
    /\ wc = w
    /\ w = Triangle(float, C11_Start)

C12_CheckedSeedInRange ==
    func = "approx_inv_sqrt" =>
        /\ pc # "panic"
        /\ wrapped = FALSE
        /\ (pc = "unchecked" =>
               /\ IsPositive(float, self)
               /\ BLe(BShr(to_bits(float, self), 1), MAGIC_NUMBER[float]))
        /\ ((pc = "newton" /\ i = 0) =>
               BAdd(to_bits(float, y), BShr(to_bits(float, self), 1)) = MAGIC_NUMBER[float])

\* approx_inv_sqrt has computed the seed for +infinity, the greatest bit
\* pattern that passes the guard
C12_Witness ==
    /\ func = "approx_inv_sqrt"
    /\ pc = "newton"
    /\ i = 0
    /\ self = Inf(float, 0)
    /\ wrapped = FALSE
    /\ y = inv_sqrt_seed(float, self)

============================================================================
